---- MODULE Spec2Model ----
(***************************************************************************)
(* Model of keras_mixed_sequence.utils.vector_sequence.VectorSequence:     *)
(* a batch iterator over a vector that is re-shuffled at every epoch end   *)
(* with numpy's legacy generator RandomState(seed + elapsed_epochs).       *)
(***************************************************************************)
EXTENDS Integers, Sequences, FiniteSets, TLC

(***************************************************************************)
(* 32-bit words.  TLC integers are 32-bit signed, so an unsigned 32-bit    *)
(* word is kept as a pair <<hi, lo>> of 16-bit halves.                     *)
(***************************************************************************)
Half == 65536

Word(hi, lo) == <<hi, lo>>

Hi(w) == w[1]

Lo(w) == w[2]

RECURSIVE Pow2(_)
Pow2(k) == IF k = 0 THEN 1 ELSE 2 * Pow2(k - 1)

\* bitwise exclusive or / and of two n-bit naturals
RECURSIVE Xor(_, _, _)
Xor(a, b, n) ==
    IF n = 0 THEN 0
    ELSE ((a + b) % 2) + 2 * Xor(a \div 2, b \div 2, n - 1)

RECURSIVE And(_, _, _)
And(a, b, n) ==
    IF n = 0 THEN 0
    ELSE ((a % 2) * (b % 2)) + 2 * And(a \div 2, b \div 2, n - 1)

Xor32(v, w) == Word(Xor(Hi(v), Hi(w), 16), Xor(Lo(v), Lo(w), 16))

And32(v, w) == Word(And(Hi(v), Hi(w), 16), And(Lo(v), Lo(w), 16))

\* w >> k, for 0 < k < 32
Shr32(w, k) ==
    IF k >= 16
    THEN Word(0, Hi(w) \div Pow2(k - 16))
    ELSE Word(Hi(w) \div Pow2(k),
              (Lo(w) \div Pow2(k)) + (Hi(w) % Pow2(k)) * Pow2(16 - k))

\* (w << k) & 0xffffffff, for 0 < k < 16
Shl32(w, k) ==
    Word(((Hi(w) % Pow2(16 - k)) * Pow2(k)) + (Lo(w) \div Pow2(16 - k)),
         (Lo(w) % Pow2(16 - k)) * Pow2(k))

\* (a * b) & 0xffff for 16-bit a, b, without leaving 32 signed bits
MulLow16(a, b) ==
    (((a % 256) * b) + ((((a \div 256) * b) % 256) * 256)) % Half

\* (a * b) >> 16 for 16-bit a, b
MulHigh16(a, b) ==
    LET p0 == (a % 256) * b
        p1 == (a \div 256) * b
    IN  ((p0 + ((p1 % 256) * 256)) \div Half) + (p1 \div 256)

\* (v * w) & 0xffffffff
Mul32(v, w) ==
    Word((MulHigh16(Lo(v), Lo(w)) + MulLow16(Hi(v), Lo(w))
            + MulLow16(Lo(v), Hi(w))) % Half,
         MulLow16(Lo(v), Lo(w)))

\* (w + n) & 0xffffffff for a small natural n
Add32(w, n) ==
    Word((Hi(w) + ((Lo(w) + n) \div Half)) % Half, (Lo(w) + n) % Half)

(***************************************************************************)
(* numpy.random.RandomState: the MT19937 generator.                        *)
(***************************************************************************)
RK_STATE_LEN == 624

MT_M == 397

\* 1812433253 = 0x6C078965
MT_INIT_MULT == Word(27655, 35173)

\* 0x9908b0df
MATRIX_A == Word(39176, 45279)

\* 0x9d2c5680
TEMPER_B == Word(40236, 22144)

\* 0xefc60000
TEMPER_C == Word(61382, 0)

\* one iteration of mt19937_seed's loop at 0-based index pos:
\* key[pos] = seed; seed = 1812433253 * (seed ^ (seed >> 30)) + pos + 1
SeedStep(ks, pos) ==
    [key  |-> Append(ks.key, ks.seed),
     seed |-> Add32(Mul32(MT_INIT_MULT, Xor32(ks.seed, Shr32(ks.seed, 30))), pos + 1)]

\* the loop for pos in lo .. hi-1.  It is split in halves, and the first half is
\* evaluated (its length read) before the second starts, to keep evaluation shallow.
RECURSIVE SeedLoop(_, _, _)
SeedLoop(ks, lo, hi) ==
    IF hi <= lo THEN ks
    ELSE IF hi = lo + 1 THEN SeedStep(ks, lo)
    ELSE LET first == SeedLoop(ks, lo, (lo + hi) \div 2)
         IN  IF Len(first.key) = (lo + hi) \div 2
             THEN SeedLoop(first, (lo + hi) \div 2, hi)
             ELSE first

\* the state after RandomState(seed): pos = RK_STATE_LEN forces a refill on first use
mt19937_seed(s) ==
    [key |-> SeedLoop([key |-> <<>>, seed |-> Word(s \div Half, s % Half)],
                      0, RK_STATE_LEN).key,
     pos |-> RK_STATE_LEN]

\* one step of mt19937_gen at 0-based index kk, in place
Twist(key, kk) ==
    LET a  == key[kk + 1]
        b  == key[((kk + 1) % RK_STATE_LEN) + 1]
        c  == key[((kk + MT_M) % RK_STATE_LEN) + 1]
        y  == Word(((Hi(a) \div 32768) * 32768) + (Hi(b) % 32768), Lo(b))
        m  == IF Lo(y) % 2 = 1 THEN MATRIX_A ELSE Word(0, 0)
    IN  [key EXCEPT ![kk + 1] = Xor32(Xor32(c, Shr32(y, 1)), m)]

\* the loop for kk in lo .. hi-1, split in halves like SeedLoop
RECURSIVE GenLoop(_, _, _)
GenLoop(key, lo, hi) ==
    IF hi <= lo THEN key
    ELSE IF hi = lo + 1 THEN Twist(key, lo)
    ELSE LET first == GenLoop(key, lo, (lo + hi) \div 2)
         IN  IF Len(first) = RK_STATE_LEN
             THEN GenLoop(first, (lo + hi) \div 2, hi)
             ELSE first

mt19937_gen(st) == [key |-> GenLoop(st.key, 0, RK_STATE_LEN), pos |-> 0]

Temper(y0) ==
    LET y1 == Xor32(y0, Shr32(y0, 11))
        y2 == Xor32(y1, And32(Shl32(y1, 7), TEMPER_B))
        y3 == Xor32(y2, And32(Shl32(y2, 15), TEMPER_C))
    IN  Xor32(y3, Shr32(y3, 18))

\* mt19937_next: <<the next 32-bit output, the state after it>>
mt19937_next(st) ==
    LET s == IF st.pos = RK_STATE_LEN THEN mt19937_gen(st) ELSE st
    IN  <<Temper(s.key[s.pos + 1]), [s EXCEPT !.pos = s.pos + 1]>>

\* the mask of random_interval: max with every bit below its top bit set
RECURSIVE IntervalMask(_)
IntervalMask(max) == IF max = 0 THEN 0 ELSE (2 * IntervalMask(max \div 2)) + 1

\* random_interval(max) for max < 2^16: draw, mask, reject values above max
RECURSIVE random_interval(_, _)
random_interval(st, max) ==
    IF max = 0 THEN <<0, st>>
    ELSE LET d == mt19937_next(st)
             v == Lo(d[1]) % (IntervalMask(max) + 1)
         IN  IF v <= max THEN <<v, d[2]>> ELSE random_interval(d[2], max)

Swap(x, i, j) == [x EXCEPT ![i + 1] = x[j + 1], ![j + 1] = x[i + 1]]

\* RandomState.shuffle: for i in reversed(range(1, n)): j = interval(i); swap
RECURSIVE ShuffleFrom(_, _, _)
ShuffleFrom(st, x, i) ==
    IF i < 1 THEN x
    ELSE LET d == random_interval(st, i)
         IN  ShuffleFrom(d[2], Swap(x, i, d[1]), i - 1)

shuffle(st, x) == ShuffleFrom(st, x, Len(x) - 1)

\* np.arange(n), 0-based values in a 1-based sequence
arange(n) == [p \in 1..n |-> p - 1]


(***************************************************************************)
(* Bounds of the model.                                                    *)
(***************************************************************************)
\* longest dataset vector
MaxN == 3

\* dataset elements are 1 .. MaxVal (repeated elements occur)
MaxVal == 2

\* batch sizes are 1 .. MaxBatch
MaxBatch == 2

\* seeds are 0 .. MaxSeed
MaxSeed == 1

\* elapsed_epochs arguments of the constructor are 0 .. MaxStart
MaxStart == 1

\* on_epoch_end is called while elapsed_epochs < MaxElapsed
MaxElapsed == 3

\* batch indexes asked for are -MaxIdx .. MaxIdx
MaxIdx == 3

Iota(n) == [p \in 1..n |-> p]

\* the vectors with distinct elements 1..n
DistinctVectors == {Iota(n) : n \in 0..MaxN}

Vectors == (UNION {[1..n -> 1..MaxVal] : n \in 0..MaxN}) \cup DistinctVectors

BatchSizes == 1..MaxBatch

Seeds == 0..MaxSeed

StartEpochs == 0..MaxStart

Indexes == (-MaxIdx)..MaxIdx

(***************************************************************************)
(* State: one function per attribute, over the constructed objects.        *)
(***************************************************************************)
VARIABLES
    vector,          \* self._vector
    shuffled,        \* self._shuffled
    seed,            \* self._seed
    samples_number,  \* Sequence._samples_number
    batch_size,      \* Sequence._batch_size
    elapsed_epochs,  \* Sequence._elapsed_epochs
    start_epochs,    \* history: the elapsed_epochs argument of the constructor
    epoch_ends,      \* history: number of on_epoch_end calls made
    rng_seed,        \* history: the seed of the last RandomState created (-1: none)
    last,            \* the last call and what it returned
    delivered,       \* the batches a driver received in the epoch in progress
    frames           \* the calls in progress when two threads share an object

vars == <<vector, shuffled, seed, samples_number, batch_size, elapsed_epochs,
          start_epochs, epoch_ends, rng_seed, last, delivered, frames>>

Objs == DOMAIN vector

(***************************************************************************)
(* Sequence, the base class: sizes and epoch bookkeeping.                  *)
(***************************************************************************)
\* Sequence.steps_per_epoch: ceil(samples_number / batch_size)
steps_per_epoch(o) == (samples_number[o] + batch_size[o] - 1) \div batch_size[o]

\* Sequence.on_epoch_end: self._elapsed_epochs += 1
super_on_epoch_end(e) == e + 1

(***************************************************************************)
(* VectorSequence.                                                         *)
(***************************************************************************)
\* a view that starts reversed instead of as a copy
InitialView_reversed(vec) == [p \in 1..Len(vec) |-> vec[Len(vec) + 1 - p]]

\* vector.copy()
InitialView(vec) == vec

\* the seed derived from the count before its increment
EpochSeed_preincrement(s, e) == s + e - 1

\* the seed derived from self._seed alone
EpochSeed_fixed(s, e) == s

\* seed=self._seed + self._elapsed_epochs
EpochSeed(s, e) == s + e

\* state = RandomState(seed=s); indices = arange(n); state.shuffle(indices)
ShuffledIndices(s, n) == shuffle(mt19937_seed(s), arange(n))

\* every generator seed the model can reach, shuffled once for every length
MaxRngSeed == MaxSeed + MaxElapsed

IndicesRows == {<<s, n, ShuffledIndices(s, n)>> : s \in 0..MaxRngSeed, n \in 0..MaxN}

\* ShuffledIndices(s, n), read from the rows computed once
IndicesTable(s, n) == (CHOOSE row \in IndicesRows : row[1] = s /\ row[2] = n)[3]

\* re-shuffling the previous view instead of the dataset vector
ShuffleSource_previous(vec, prev) == prev

\* the array on_epoch_end indexes: self._vector (prev is the view it replaces)
ShuffleSource(vec, prev) == vec

\* indexing that loses the last position
Reorder_short(vec, indices) == [p \in 1..(Len(indices) - 1) |-> vec[indices[p] + 1]]

\* vec[indices]: numpy indexing by an array of 0-based positions
Reorder(vec, indices) == [p \in 1..Len(indices) |-> vec[indices[p] + 1]]

\* x[start:stop] as Python slices: negative bounds count from the end, and
\* both are clamped to 0 .. len(x)
SliceBound(b, n) ==
    IF b < 0 THEN (IF b + n < 0 THEN 0 ELSE b + n) ELSE (IF b > n THEN n ELSE b)

PySlice(x, start, stop) ==
    LET lo == SliceBound(start, Len(x))
        hi == SliceBound(stop, Len(x))
    IN  IF hi <= lo THEN <<>> ELSE SubSeq(x, lo + 1, hi)

\* idx >= self.steps_per_epoch
OutOfRange(idx, steps) == idx >= steps

\* slices that start one late, stop one early, or stop one late
BatchSlice_late(view, b, idx) == PySlice(view, (idx * b) + 1, (idx + 1) * b)

BatchSlice_gap(view, b, idx) == PySlice(view, idx * b, ((idx + 1) * b) - 1)

BatchSlice_wide(view, b, idx) == PySlice(view, idx * b, ((idx + 1) * b) + 1)

\* self._shuffled[idx * self.batch_size: (idx + 1) * self.batch_size]
BatchSlice(view, b, idx) == PySlice(view, idx * b, (idx + 1) * b)

NoCall == [op |-> "init", obj |-> 0, idx |-> 0, raised |-> FALSE, batch |-> <<>>]

\* no call in progress.  e_*: the thread in on_epoch_end (e_new: the array built
\* and not yet assigned); g_*: the thread in __getitem__ (g_ref: the array it
\* loaded); stores: assignments of _shuffled made; g_first: stores when the
\* __getitem__ call began
IdleFrames ==
    [e_pc |-> "idle", e_new |-> <<>>, stores |-> 0,
     g_pc |-> "idle", g_idx |-> 0, g_first |-> 0, g_ref |-> <<>>, g_batch |-> <<>>]

\* VectorSequence(vec, b, s, e) for every object of the set os
Construct(os, vec, b, s, e) ==
    /\ vector = [o \in os |-> vec[o]]
    /\ shuffled = [o \in os |-> InitialView(vec[o])]
    /\ seed = [o \in os |-> s[o]]
    /\ samples_number = [o \in os |-> Len(vec[o])]
    /\ batch_size = [o \in os |-> b[o]]
    /\ elapsed_epochs = [o \in os |-> e[o]]
    /\ start_epochs = [o \in os |-> e[o]]
    /\ epoch_ends = [o \in os |-> 0]
    /\ rng_seed = [o \in os |-> -1]
    /\ last = NoCall
    /\ delivered = [o \in os |-> <<>>]
    /\ frames = IdleFrames

\* one object, any arguments
Init ==
    \E vec \in Vectors, b \in BatchSizes, s \in Seeds, e \in StartEpochs :
        Construct({1}, <<vec>>, <<b>>, <<s>>, <<e>>)

\* two objects over the same vector with the same batch size
PairInit ==
    \E vec \in DistinctVectors, b \in BatchSizes,
       s \in [{1, 2} -> Seeds], e \in [{1, 2} -> StartEpochs] :
        Construct({1, 2}, <<vec, vec>>, <<b, b>>, s, e)

\* an on_epoch_end that reorders the dataset vector itself
on_epoch_end_inplace(o) ==
    /\ elapsed_epochs[o] < MaxElapsed
    /\ LET e == super_on_epoch_end(elapsed_epochs[o])
           r == EpochSeed(seed[o], e)
           indices == IndicesTable(r, samples_number[o])
       IN  /\ elapsed_epochs' = [elapsed_epochs EXCEPT ![o] = e]
           /\ rng_seed' = [rng_seed EXCEPT ![o] = r]
           /\ vector' = [vector EXCEPT ![o] = Reorder(vector[o], indices)]
           /\ shuffled' = [shuffled EXCEPT ![o] = Reorder(vector[o], indices)]
    /\ epoch_ends' = [epoch_ends EXCEPT ![o] = epoch_ends[o] + 1]
    /\ last' = [op |-> "on_epoch_end", obj |-> o, idx |-> 0, raised |-> FALSE,
                batch |-> <<>>]
    /\ UNCHANGED <<seed, samples_number, batch_size, start_epochs>>

\* VectorSequence.on_epoch_end
on_epoch_end(o) ==
    /\ elapsed_epochs[o] < MaxElapsed
    /\ LET e == super_on_epoch_end(elapsed_epochs[o])
           r == EpochSeed(seed[o], e)
           indices == IndicesTable(r, samples_number[o])
       IN  /\ elapsed_epochs' = [elapsed_epochs EXCEPT ![o] = e]
           /\ rng_seed' = [rng_seed EXCEPT ![o] = r]
           /\ shuffled' = [shuffled EXCEPT
                             ![o] = Reorder(ShuffleSource(vector[o], shuffled[o]), indices)]
    /\ epoch_ends' = [epoch_ends EXCEPT ![o] = epoch_ends[o] + 1]
    /\ last' = [op |-> "on_epoch_end", obj |-> o, idx |-> 0, raised |-> FALSE,
                batch |-> <<>>]
    /\ UNCHANGED <<vector, seed, samples_number, batch_size, start_epochs>>

\* what self[idx] does: raise ValueError, or return the slice
getitem_result(o, idx) ==
    IF OutOfRange(idx, steps_per_epoch(o))
    THEN [raised |-> TRUE, batch |-> <<>>]
    ELSE [raised |-> FALSE, batch |-> BatchSlice(shuffled[o], batch_size[o], idx)]

\* a __getitem__ that ends the epoch itself once the last batch is read
getitem_advancing(o, idx) ==
    /\ last' = [op |-> "getitem", obj |-> o, idx |-> idx,
                raised |-> getitem_result(o, idx).raised,
                batch |-> getitem_result(o, idx).batch]
    /\ elapsed_epochs' = [elapsed_epochs EXCEPT
                            ![o] = IF idx = steps_per_epoch(o) - 1 /\ @ < MaxElapsed
                                   THEN @ + 1 ELSE @]
    /\ UNCHANGED <<vector, shuffled, seed, samples_number, batch_size,
                   start_epochs, epoch_ends, rng_seed>>

\* VectorSequence.__getitem__
getitem(o, idx) ==
    /\ last' = [op |-> "getitem", obj |-> o, idx |-> idx,
                raised |-> getitem_result(o, idx).raised,
                batch |-> getitem_result(o, idx).batch]
    /\ UNCHANGED <<vector, shuffled, seed, samples_number, batch_size, elapsed_epochs,
                   start_epochs, epoch_ends, rng_seed>>

\* calls in any order, each run to its end
Next ==
    \/ \E o \in Objs : on_epoch_end(o) /\ UNCHANGED <<delivered, frames>>
    \/ \E o \in Objs, idx \in Indexes : getitem(o, idx) /\ UNCHANGED <<delivered, frames>>

Spec == Init /\ [][Next]_vars

PairSpec == PairInit /\ [][Next]_vars

(***************************************************************************)
(* The driver: per epoch, self[idx] for idx = 0 .. steps_per_epoch-1 in    *)
(* order, then on_epoch_end once.                                          *)
(***************************************************************************)
DriverGet(o) ==
    /\ Len(delivered[o]) < steps_per_epoch(o)
    /\ getitem(o, Len(delivered[o]))
    /\ delivered' = [delivered EXCEPT ![o] = Append(@, last'.batch)]
    /\ UNCHANGED frames

DriverEpochEnd(o) ==
    /\ Len(delivered[o]) = steps_per_epoch(o)
    /\ on_epoch_end(o)
    /\ delivered' = [delivered EXCEPT ![o] = <<>>]
    /\ UNCHANGED frames

DriverNext ==
    \/ \E o \in Objs : DriverGet(o)
    \/ \E o \in Objs : DriverEpochEnd(o)

DriverSpec == Init /\ [][DriverNext]_vars

(***************************************************************************)
(* Two threads on one object, one in on_epoch_end and one in __getitem__,  *)
(* interleaved at the loads and stores of the object's attributes.         *)
(***************************************************************************)
\* super().on_epoch_end()
E_begin(o) ==
    /\ frames.e_pc = "idle"
    /\ elapsed_epochs[o] < MaxElapsed
    /\ elapsed_epochs' = [elapsed_epochs EXCEPT ![o] = super_on_epoch_end(@)]
    /\ epoch_ends' = [epoch_ends EXCEPT ![o] = @ + 1]
    /\ frames' = [frames EXCEPT !.e_pc = "counted"]
    /\ UNCHANGED <<vector, shuffled, seed, samples_number, batch_size, start_epochs,
                   rng_seed, last, delivered>>

\* the generator, the shuffled indices and the array self._vector[indices]
E_build(o) ==
    /\ frames.e_pc = "counted"
    /\ LET r == EpochSeed(seed[o], elapsed_epochs[o])
       IN  /\ rng_seed' = [rng_seed EXCEPT ![o] = r]
           /\ frames' = [frames EXCEPT
                           !.e_pc = "built",
                           !.e_new = Reorder(ShuffleSource(vector[o], shuffled[o]),
                                             IndicesTable(r, samples_number[o]))]
    /\ UNCHANGED <<vector, shuffled, seed, samples_number, batch_size, elapsed_epochs,
                   start_epochs, epoch_ends, last, delivered>>

\* a store that copies the new array into the old one, one element per step
E_store_elementwise(o) ==
    /\ frames.e_pc = "built"
    /\ LET diff == {p \in 1..Len(shuffled[o]) : shuffled[o][p] # frames.e_new[p]}
       IN  IF diff = {}
           THEN /\ frames' = [frames EXCEPT !.e_pc = "idle", !.e_new = <<>>,
                                            !.stores = @ + 1]
                /\ UNCHANGED shuffled
           ELSE /\ shuffled' = [shuffled EXCEPT
                                  ![o][CHOOSE p \in diff : \A q \in diff : p <= q] =
                                      frames.e_new[CHOOSE p \in diff : \A q \in diff : p <= q]]
                /\ UNCHANGED frames
    /\ UNCHANGED <<vector, seed, samples_number, batch_size, elapsed_epochs,
                   start_epochs, epoch_ends, rng_seed, last, delivered>>

\* self._shuffled = <the array built>: one store of a reference
E_store(o) ==
    /\ frames.e_pc = "built"
    /\ shuffled' = [shuffled EXCEPT ![o] = frames.e_new]
    /\ frames' = [frames EXCEPT !.e_pc = "idle", !.e_new = <<>>, !.stores = @ + 1]
    /\ UNCHANGED <<vector, seed, samples_number, batch_size, elapsed_epochs,
                   start_epochs, epoch_ends, rng_seed, last, delivered>>

\* if idx >= self.steps_per_epoch: raise ValueError
G_check(o, idx) ==
    /\ frames.g_pc \in {"idle", "returned", "raised"}
    /\ frames' = [frames EXCEPT
                    !.g_pc = IF OutOfRange(idx, steps_per_epoch(o))
                             THEN "raised" ELSE "checked",
                    !.g_idx = idx, !.g_first = frames.stores,
                    !.g_ref = <<>>, !.g_batch = <<>>]
    /\ UNCHANGED <<vector, shuffled, seed, samples_number, batch_size, elapsed_epochs,
                   start_epochs, epoch_ends, rng_seed, last, delivered>>

\* the load of self._shuffled
G_load(o) ==
    /\ frames.g_pc = "checked"
    /\ frames' = [frames EXCEPT !.g_pc = "loaded", !.g_ref = shuffled[o]]
    /\ UNCHANGED <<vector, shuffled, seed, samples_number, batch_size, elapsed_epochs,
                   start_epochs, epoch_ends, rng_seed, last, delivered>>

\* the slice of the array loaded, returned
G_slice(o) ==
    /\ frames.g_pc = "loaded"
    /\ frames' = [frames EXCEPT
                    !.g_pc = "returned", !.g_ref = <<>>,
                    !.g_batch = BatchSlice(frames.g_ref, batch_size[o], frames.g_idx)]
    /\ UNCHANGED <<vector, shuffled, seed, samples_number, batch_size, elapsed_epochs,
                   start_epochs, epoch_ends, rng_seed, last, delivered>>

\* one object over a vector of distinct elements
ConcInit ==
    \E vec \in DistinctVectors, b \in BatchSizes, s \in Seeds, e \in StartEpochs :
        Construct({1}, <<vec>>, <<b>>, <<s>>, <<e>>)

ConcNext ==
    \/ \E o \in Objs : E_begin(o)
    \/ \E o \in Objs : E_build(o)
    \/ \E o \in Objs : E_store(o)
    \/ \E o \in Objs, idx \in Indexes : G_check(o, idx)
    \/ \E o \in Objs : G_load(o)
    \/ \E o \in Objs : G_slice(o)

ConcSpec == ConcInit /\ [][ConcNext]_vars

(***************************************************************************)
(* Properties.                                                             *)
(***************************************************************************)
Min(a, b) == IF a <= b THEN a ELSE b

\* number of positions of sq that hold v
Count(sq, v) == Cardinality({p \in 1..Len(sq) : sq[p] = v})

\* positions first+1 .. stop of sq, in order (empty when stop <= first)
Positions(sq, first, stop) == [k \in 1..(stop - first) |-> sq[first + k]]

\* the last call was self[idx] on object o with 0 <= idx < steps_per_epoch
LastValidGet ==
    /\ last.op = "getitem"
    /\ 0 <= last.idx
    /\ last.idx < steps_per_epoch(last.obj)

\* C1: get_batch(idx) raises, instead of returning a slice, for every idx outside
\* [0, steps_per_epoch): for idx >= steps_per_epoch and for negative idx alike.
C1_OutOfRangeRaises ==
    (/\ last.op = "getitem"
     /\ (last.idx < 0 \/ last.idx >= steps_per_epoch(last.obj)))
        => last.raised

\* C2: for 0 <= idx < steps_per_epoch, get_batch(idx) returns the elements of the
\* current view at positions idx*B up to, excluding, min((idx+1)*B, N), in order.
C2_BatchIsViewSlice ==
    LastValidGet =>
        /\ ~last.raised
        /\ last.batch =
             Positions(shuffled[last.obj], last.idx * batch_size[last.obj],
                       Min((last.idx + 1) * batch_size[last.obj],
                           samples_number[last.obj]))

C2_Witness ==
    /\ LastValidGet
    /\ last.idx > 0
    /\ epoch_ends[last.obj] > 0
    /\ shuffled[last.obj] # vector[last.obj]
    /\ Len(last.batch) < batch_size[last.obj]

\* C3: in every reachable state the view is a permutation of the dataset vector:
\* length N and the same number of occurrences of every element.
C3_ViewIsPermutation ==
    \A o \in Objs :
        /\ Len(shuffled[o]) = samples_number[o]
        /\ Len(vector[o]) = samples_number[o]
        /\ \A v \in 1..(MaxVal + MaxN) : Count(shuffled[o], v) = Count(vector[o], v)

C3_Witness ==
    \E o \in Objs :
        /\ epoch_ends[o] > 1
        /\ shuffled[o] # vector[o]
        /\ \E p, q \in 1..Len(vector[o]) : p # q /\ vector[o][p] = vector[o][q]
        /\ last.op = "getitem"

\* C4: two objects over the same vector with the same seed whose counters reached
\* the same value E through on_epoch_end hold the same view, whatever their
\* initial counts and call histories.
C4_Determinism ==
    \A a, b \in Objs :
        (/\ vector[a] = vector[b]
         /\ seed[a] = seed[b]
         /\ elapsed_epochs[a] = elapsed_epochs[b]
         /\ epoch_ends[a] > 0
         /\ epoch_ends[b] > 0)
            => shuffled[a] = shuffled[b]

C4_Witness ==
    \E a, b \in Objs :
        /\ a # b
        /\ seed[a] = seed[b]
        /\ start_epochs[a] # start_epochs[b]
        /\ elapsed_epochs[a] = elapsed_epochs[b]
        /\ epoch_ends[a] > 0
        /\ epoch_ends[b] > 0
        /\ shuffled[a] # vector[a]
        /\ last.op = "getitem"

\* a was constructed with count 0, b with a count E > 0, over the same vector with
\* the same seed and batch size, and a has made E more on_epoch_end calls than b
Resumed(a, b) ==
    /\ vector[a] = vector[b]
    /\ seed[a] = seed[b]
    /\ batch_size[a] = batch_size[b]
    /\ start_epochs[a] = 0
    /\ start_epochs[b] > 0
    /\ epoch_ends[a] = start_epochs[b] + epoch_ends[b]

\* C5 (as claimed): the resumed object b has the count and the view of a, right
\* after construction and after every further identical sequence of operations.
C5_ResumeEqualsReplay ==
    \A a, b \in Objs :
        Resumed(a, b) =>
            /\ elapsed_epochs[a] = elapsed_epochs[b]
            /\ shuffled[a] = shuffled[b]

\* C5 (amended): the resumed object b has the count of a at once; it holds the
\* unshuffled vector until its first on_epoch_end call, and from that call on it
\* has the view of a, so every get_batch(idx) returns the same in both.
C5_ResumeAgreesAfterEpochEnd ==
    \A a, b \in Objs :
        Resumed(a, b) =>
            /\ elapsed_epochs[a] = elapsed_epochs[b]
            /\ epoch_ends[b] = 0 => shuffled[b] = vector[b]
            /\ epoch_ends[b] > 0 =>
                /\ shuffled[a] = shuffled[b]
                /\ \A idx \in Indexes : getitem_result(a, idx) = getitem_result(b, idx)

C5_Witness ==
    \E a, b \in Objs :
        /\ Resumed(a, b)
        /\ epoch_ends[b] > 0
        /\ shuffled[a] # vector[a]
        /\ last.op = "getitem"
        /\ ~last.raised

\* C6: from construction until the first on_epoch_end call, for any seed and any
\* initial count, the view is the dataset vector in its own order, and get_batch
\* returns the original elements idx*B .. min((idx+1)*B, N)-1.
C6_IdentityUntilFirstEpochEnd ==
    \A o \in Objs :
        epoch_ends[o] = 0 =>
            /\ shuffled[o] = vector[o]
            /\ (LastValidGet /\ last.obj = o) =>
                   last.batch = Positions(vector[o], last.idx * batch_size[o],
                                          Min((last.idx + 1) * batch_size[o],
                                              Len(vector[o])))

C6_Witness ==
    /\ LastValidGet
    /\ epoch_ends[last.obj] = 0
    /\ start_epochs[last.obj] > 0
    /\ seed[last.obj] > 0
    /\ last.idx > 0
    /\ last.batch # <<>>

\* get_batch(from) \o ... \o get_batch(steps_per_epoch - 1) of object o
RECURSIVE ConcatBatches(_, _)
ConcatBatches(o, from) ==
    IF from >= steps_per_epoch(o) THEN <<>>
    ELSE getitem_result(o, from).batch \o ConcatBatches(o, from + 1)

\* C7: in every reachable state no get_batch(idx) with idx in [0, steps_per_epoch)
\* fails, and their results, concatenated in index order, are the current view.
C7_BatchesCoverView ==
    \A o \in Objs :
        /\ \A idx \in 0..(steps_per_epoch(o) - 1) : ~getitem_result(o, idx).raised
        /\ ConcatBatches(o, 0) = shuffled[o]

C7_Witness ==
    \E o \in Objs :
        /\ steps_per_epoch(o) > 1
        /\ samples_number[o] % batch_size[o] # 0
        /\ epoch_ends[o] > 0
        /\ shuffled[o] # vector[o]
        /\ LastValidGet

\* C8: a batch of a valid idx is never empty; it has exactly B elements when
\* idx < steps_per_epoch - 1; the last one has N mod B elements when B does not
\* divide N and B elements when it does.
C8_BatchLengths ==
    LastValidGet =>
        LET b == batch_size[last.obj]
            n == samples_number[last.obj]
        IN  /\ ~last.raised
            /\ Len(last.batch) > 0
            /\ last.idx < steps_per_epoch(last.obj) - 1 => Len(last.batch) = b
            /\ last.idx = steps_per_epoch(last.obj) - 1 =>
                   Len(last.batch) = IF n % b = 0 THEN b ELSE n % b

C8_Witness ==
    /\ LastValidGet
    /\ steps_per_epoch(last.obj) > 1
    /\ last.idx = steps_per_epoch(last.obj) - 1
    /\ samples_number[last.obj] % batch_size[last.obj] # 0
    /\ Len(last.batch) = samples_number[last.obj] % batch_size[last.obj]

\* C9: every get_batch call, returning or raising, leaves the view, the counter,
\* the dataset vector, the seed and the sizes unchanged, and so leaves unchanged
\* what any get_batch(idx) returns.
C9_GetItemIsPureRead ==
    [][last'.op = "getitem" =>
          /\ UNCHANGED <<shuffled, elapsed_epochs, vector, seed, batch_size,
                         samples_number>>
          /\ \A o \in Objs, idx \in Indexes :
                 getitem_result(o, idx)' = getitem_result(o, idx)]_vars

C9_Witness ==
    /\ last.op = "getitem"
    /\ last.raised
    /\ last.idx = steps_per_epoch(last.obj)
    /\ epoch_ends[last.obj] > 0
    /\ shuffled[last.obj] # vector[last.obj]

\* C10: an on_epoch_end call adds exactly 1 to the counter and then derives the
\* seed from the new count, so the k-th call of an object built with seed S and
\* count E0 shuffles the vector with seed S + E0 + k; no other step changes the
\* counter, which therefore never decreases.
C10_EpochCounter ==
    [][\A o \in Objs :
          IF epoch_ends'[o] # epoch_ends[o]
          THEN /\ epoch_ends'[o] = epoch_ends[o] + 1
               /\ elapsed_epochs'[o] = elapsed_epochs[o] + 1
               /\ rng_seed'[o] = seed[o] + start_epochs[o] + epoch_ends'[o]
               /\ shuffled'[o] =
                    Reorder(vector[o],
                            IndicesTable(seed[o] + start_epochs[o] + epoch_ends'[o],
                                         samples_number[o]))
          ELSE elapsed_epochs'[o] = elapsed_epochs[o]]_vars

C10_Witness ==
    \E o \in Objs :
        /\ last.op = "on_epoch_end"
        /\ last.obj = o
        /\ epoch_ends[o] = 2
        /\ start_epochs[o] = 1
        /\ seed[o] = 1
        /\ rng_seed[o] = 4
        /\ shuffled[o] # vector[o]

\* C11: the permutation depends on the seed and the count only through their
\* sum: two objects over the same vector whose seeds differ but whose sums
\* seed + elapsed_epochs agree hold the same view after their on_epoch_end call.
C11_SeedCollision ==
    \A a, b \in Objs :
        (/\ vector[a] = vector[b]
         /\ seed[a] + elapsed_epochs[a] = seed[b] + elapsed_epochs[b]
         /\ epoch_ends[a] > 0
         /\ epoch_ends[b] > 0)
            => /\ rng_seed[a] = rng_seed[b]
               /\ shuffled[a] = shuffled[b]

C11_Witness ==
    \E a, b \in Objs :
        /\ seed[a] # seed[b]
        /\ elapsed_epochs[a] # elapsed_epochs[b]
        /\ seed[a] + elapsed_epochs[a] = seed[b] + elapsed_epochs[b]
        /\ epoch_ends[a] > 0
        /\ epoch_ends[b] > 0
        /\ last.op = "on_epoch_end"
        /\ shuffled[a] # vector[a]
        /\ Len(vector[a]) = MaxN

\* C12: the dataset vector, the seed, the batch size and N never change, in any
\* step, and an on_epoch_end step builds the new view from the dataset vector,
\* not from the view it replaces.
C12_DatasetIsFrame ==
    [][/\ UNCHANGED <<vector, seed, batch_size, samples_number>>
       /\ \A o \in Objs :
              /\ Len(vector[o]) = samples_number[o]
              /\ epoch_ends'[o] # epoch_ends[o] =>
                     shuffled'[o] =
                         Reorder(vector[o], IndicesTable(rng_seed'[o], Len(vector[o])))]_vars

C12_Witness ==
    \E o \in Objs :
        /\ last.op = "on_epoch_end"
        /\ last.obj = o
        /\ epoch_ends[o] > 1
        /\ shuffled[o] # vector[o]
        /\ shuffled[o] # Reorder(Reorder(vector[o], IndicesTable(rng_seed[o] - 1,
                                                                 Len(vector[o]))),
                                 IndicesTable(rng_seed[o], Len(vector[o])))

\* the batches of a pass, joined in the order of delivery
RECURSIVE Flatten(_)
Flatten(bs) == IF bs = <<>> THEN <<>> ELSE Head(bs) \o Flatten(Tail(bs))

\* C13: under the driver protocol the batches delivered in an epoch together hold
\* every element of the dataset vector exactly once (the same number of times as
\* the vector does), in the first, unshuffled epoch and in every later one; in
\* the course of the epoch no element is delivered more often than that.
C13_EpochDeliversDataset ==
    \A o \in Objs :
        /\ \A p \in 1..Len(Flatten(delivered[o])) :
               Count(Flatten(delivered[o]), Flatten(delivered[o])[p])
                   <= Count(vector[o], Flatten(delivered[o])[p])
        /\ Len(delivered[o]) = steps_per_epoch(o) =>
               /\ Len(Flatten(delivered[o])) = Len(vector[o])
               /\ \A p \in 1..Len(vector[o]) :
                      Count(Flatten(delivered[o]), vector[o][p])
                          = Count(vector[o], vector[o][p])

C13_Witness ==
    \E o \in Objs :
        /\ epoch_ends[o] > 1
        /\ steps_per_epoch(o) > 1
        /\ Len(delivered[o]) = steps_per_epoch(o)
        /\ Flatten(delivered[o]) # vector[o]
        /\ \E p, q \in 1..Len(vector[o]) : p # q /\ vector[o][p] = vector[o][q]

\* the k-th view of object o: the vector's copy, then one view per on_epoch_end
ViewOf(o, k) ==
    IF k = 0 THEN vector[o]
    ELSE Reorder(vector[o],
                 IndicesTable(seed[o] + start_epochs[o] + k, Len(vector[o])))

\* C14: with a get_batch call interleaved with on_epoch_end calls of another
\* thread, _shuffled always holds a whole view (never a partly permuted one) and
\* the batch returned is a slice of one whole view: the one current when the call
\* began or one assigned while it ran.
C14_AtomicSwap ==
    \A o \in Objs :
        /\ shuffled[o] = ViewOf(o, frames.stores)
        /\ frames.g_pc = "returned" =>
               \E k \in frames.g_first..frames.stores :
                   frames.g_batch = BatchSlice(ViewOf(o, k), batch_size[o], frames.g_idx)

C14_Witness ==
    \E o \in Objs :
        /\ frames.g_pc = "returned"
        /\ frames.stores = frames.g_first + 1
        /\ frames.g_batch =
               BatchSlice(ViewOf(o, frames.g_first), batch_size[o], frames.g_idx)
        /\ frames.g_batch #
               BatchSlice(ViewOf(o, frames.stores), batch_size[o], frames.g_idx)
        /\ Len(frames.g_batch) > 1

====
